---- MODULE Spec2Model ----
(***************************************************************************)
(* State-machine model of the MoviePilot subscription plugin:              *)
(*   src/api.py   MoviepilotApi  - token cache, _request retry loop,       *)
(*                                 catalog operations                      *)
(*   src/main.py  MoviePilotPlugin - /sub selection dialogue, /download    *)
(* Every coroutine is cut at its await points; the code between two        *)
(* awaits is one atomic step of the asyncio event loop.  A lock is taken   *)
(* in the step that reaches its "async with" and released in the step that *)
(* runs its body, so that lock ownership is visible in the state.          *)
(***************************************************************************)
EXTENDS Integers, Sequences, FiniteSets, TLC

\* ------------------------------------------------------------------ bounds
MaxTime == 3302
MaxTokens == 2
MaxRetriesCfg == 3
MaxRetryDelay == 2
ConcRetries == 2
NearHorizon == 6

\* ------------------------------------------------------- program constants
TokenBuffer == 300
DefaultExpiresIn == 3600

Procs == {"p1", "p2"}
NoProc == "none"

\* Instants at which the clock is read (seconds); the clock also stops at
\* every pending asyncio.sleep wake-up time.
TimePoints == {0, 2, 3300}
NearPoints == {0, 2}

\* expires_in values a login response may carry; Absent = key not present
Absent == -1
Lifetimes == {302, Absent}

\* ------------------------------------------------------ python value model
\* A tmdb id / user text as Python sees it: None, an int, or a str given as
\* its sequence of characters.
PyNone == [t |-> "none", n |-> 0, s |-> <<>>]
PyInt(n) == [t |-> "int", n |-> n, s |-> <<>>]
PyStr(s) == [t |-> "str", n |-> 0, s |-> s]

Digits == <<"0", "1", "2", "3", "4", "5", "6", "7", "8", "9">>
IsDigit(c) == \E i \in 1..10 : Digits[i] = c
DigitVal(c) == (CHOOSE i \in 1..10 : Digits[i] = c) - 1

\* str.strip(): drop leading and trailing blanks
RECURSIVE LStrip(_)
LStrip(s) == IF s # <<>> /\ Head(s) = " " THEN LStrip(Tail(s)) ELSE s
RECURSIVE RStrip(_)
RStrip(s) == IF s # <<>> /\ s[Len(s)] = " " THEN RStrip(SubSeq(s, 1, Len(s) - 1)) ELSE s
Strip(s) == RStrip(LStrip(s))

RECURSIVE DigitsValue(_, _)
DigitsValue(s, acc) == IF s = <<>> THEN acc ELSE DigitsValue(Tail(s), 10 * acc + DigitVal(Head(s)))
AllDigits(s) == s # <<>> /\ \A i \in 1..Len(s) : IsDigit(s[i])

\* int(<str>): blanks stripped, optional sign, then decimal digits only;
\* anything else raises ValueError (ok = FALSE)
IntOfStr(s) ==
    LET b == Strip(s)
        signed == b # <<>> /\ Head(b) \in {"-", "+"}
        d == IF signed THEN Tail(b) ELSE b
    IN  IF AllDigits(d)
        THEN [ok |-> TRUE, val |-> IF signed /\ Head(b) = "-" THEN 0 - DigitsValue(d, 0) ELSE DigitsValue(d, 0)]
        ELSE [ok |-> FALSE, val |-> 0]

\* int(x) for a Python value: TypeError for None, identity for an int
PyToInt(x) ==
    IF x.t = "int" THEN [ok |-> TRUE, val |-> x.n]
    ELSE IF x.t = "str" THEN IntOfStr(x.s)
    ELSE [ok |-> FALSE, val |-> 0]

\* bool(x)
Truthy(x) ==
    IF x.t = "int" THEN x.n # 0
    ELSE IF x.t = "str" THEN x.s # <<>>
    ELSE FALSE

\* str(x) of a non-negative int
RECURSIVE NatToStr(_)
NatToStr(n) == IF n < 10 THEN <<Digits[n + 1]>> ELSE NatToStr(n \div 10) \o <<Digits[(n % 10) + 1]>>
PyToStr(x) ==
    IF x.t = "str" THEN x.s
    ELSE IF x.t = "int" THEN (IF x.n < 0 THEN <<"-">> \o NatToStr(0 - x.n) ELSE NatToStr(x.n))
    ELSE <<"N", "o", "n", "e">>

StrTv == <<"t", "v">>
StrMovie == <<"m", "o", "v", "i", "e">>

\* --------------------------------------------------------- backend objects
\* A JSON object of a result list, with the keys the plugin reads: a search
\* hit has title, type and tmdb_id, a season has season_number.
Obj(title, type, id, n) == [title |-> title, type |-> type, tmdb_id |-> id, season_number |-> n]
NoObj == Obj("", "", PyNone, 0)

\* main.py:214  the type string the plugin takes for a TV series; every other
\* type is subscribed as a movie
TypeTv == "tv"

MovA == Obj("A", "movie", PyInt(7), 0)
TvB == Obj("B", TypeTv, PyInt(8), 0)
UnkC == Obj("C", "other", PyInt(9), 0)
TvNoId == Obj("D", TypeTv, PyNone, 0)
TvBadId == Obj("E", TypeTv, PyStr(<<"7", "a">>), 0)
Season(n) == Obj("", "", PyNone, n)
DownloadItem == Obj("x", "", PyNone, 0)

\* result lists of the search and of the season query
MovieLists == {<<MovA, UnkC>>, <<TvB, MovA>>, <<TvNoId, TvBadId>>}
SeasonLists == {<<Season(1), Season(2)>>, <<Season(0), Season(2)>>}

\* texts a user sends as a reply
Replies ==
    {<<"0">>, <<"1">>, <<"2">>, <<"3">>, <<"a">>, <<" ", "2">>}
\* texts a user sends after /sub
Messages == {<<>>, <<" ">>, <<"X">>}
\* sender ids, and the chat each of them writes in
Owners == {"u1", "u2"}
Chats == {"c1", "c2"}


\* ------------------------------------------------------------------- state
VARIABLES
    base_url, mp_username, mp_password,  \* MoviepilotApi.__init__: "" = not configured
    max_retries, retry_delay,            \* mp_max_retries, mp_retry_delay
    cached_token, token_expires_at,      \* _cached_token (0 = None), _token_expires_at
    token_lock,                          \* holder of _token_lock, or NoProc
    now,                                 \* time.time()
    issued,                              \* serial number of the last token the backend issued
    req,                                 \* per coroutine: frame of _request / _get_mp_token
    obs,                                 \* per coroutine: what the current call has done so far
    rejected,                            \* tokens that were answered with HTTP 401
    since401                             \* "cleared" after a 401 emptied the cache, "refilled"
                                         \* once a login stored a token after it, "none" once
                                         \* the next _get_mp_token call has read the cache

VARIABLES
    state,                               \* MoviePilotPlugin.state: owner -> entry
    state_lock,                          \* holder of MoviePilotPlugin.state_lock, or NoProc
    sessions,                            \* the session waiters registered, by chat
    dlg,                                 \* per /sub command: the coroutine of subscribe and
                                         \* _wait_for_movie_selection, its waiter and timer
    turn                                 \* per /sub command: the coroutine handling one reply

cfgVars == <<base_url, mp_username, mp_password, max_retries, retry_delay>>
cacheVars == <<cached_token, token_expires_at>>
apiVars == <<cfgVars, cacheVars, token_lock, now, issued, req, obs, rejected, since401>>
dlgVars == <<state, state_lock, sessions, dlg, turn>>

\* A parsed response body (response.json()): None for JSON null or no result,
\* "empty" for a falsy value ([] or {}), "obj" for a truthy one.
NoneData == [kind |-> "none", access_token |-> 0, expires_in |-> Absent, items |-> <<>>, success |-> FALSE]
EmptyData == [NoneData EXCEPT !.kind = "empty"]
NotJson == [NoneData EXCEPT !.kind = "notjson"]
ObjData == [NoneData EXCEPT !.kind = "obj"]
LoginBody(tok, life) == [ObjData EXCEPT !.access_token = tok, !.expires_in = life]
ListBody(items) == IF items = <<>> THEN EmptyData ELSE [ObjData EXCEPT !.items = items]
FlagBody(ok) == [ObjData EXCEPT !.success = ok]

\* req[p]: pc is the await the coroutine is suspended at; login = inside the
\* nested login _request; token = the bearer token in the headers (0 = none)
IdleReq == [pc |-> "idle", op |-> "none", tmdbid |-> PyNone, login |-> FALSE, attempt |-> 0,
            token |-> 0, current_time |-> 0, wake |-> 0, data |-> NoneData]
\* obs[p]: attempts sent to the target endpoint / to the login endpoint, the
\* sleeps made between them, login requests started, last attempt's outcome;
\* ok = the target request has returned the body of a 200 response
IdleObs == [sent |-> 0, lsent |-> 0, delays |-> <<>>, ldelays |-> <<>>, nlogin |-> 0,
            last |-> "", llast |-> "", ok |-> FALSE]

\* ------------------------------------------------- MoviepilotApi, pure parts
\* variant: the buffer is forgotten, the token is used until it expires
CacheValidNoBuffer(tok, exp, t) == tok # 0 /\ t < exp

\* api.py:66  the cached token is returned when it exists and the call's time
\* is strictly before expiry minus the buffer
CacheValid(tok, exp, t) == tok # 0 /\ t < exp - TokenBuffer

\* api.py:93  data and "access_token" in data
HasAccessToken(body) == body.kind = "obj" /\ body.access_token # 0

\* api.py:96-99  expiry = time read at the start of the call + expires_in (default 3600)
ExpiresAt(t, body) == t + (IF body.expires_in = Absent THEN DefaultExpiresIn ELSE body.expires_in)

\* api.py:157  for attempt in range(self.max_retries)
InRange(attempt) == attempt < max_retries

\* api.py:193  the failed attempt is followed by a sleep
MoreAttempts(attempt) == attempt < max_retries - 1

\* variant: a constant delay between attempts
RetryDelayConstant(attempt) == retry_delay

\* api.py:194  asyncio.sleep(self.retry_delay * (attempt + 1))
RetryDelay(attempt) == retry_delay * (attempt + 1)

\* variant: a 401 is retried like any other failed status
Classify401Retried(resp) ==
    IF resp.kind = "status" /\ resp.code = 200
    THEN (IF resp.body.kind = "notjson" THEN "retry" ELSE "ok")
    ELSE "retry"

\* variant: every failed status is handled as an authentication failure
ClassifyStatusAsUnauth(resp) ==
    IF resp.kind = "status" /\ resp.code = 200
    THEN (IF resp.body.kind = "notjson" THEN "retry" ELSE "ok")
    ELSE IF resp.kind = "status" THEN "unauth"
    ELSE "retry"

\* variant: every 2xx status is taken as a success
ClassifyAny2xxOk(resp) ==
    IF resp.kind = "status" /\ resp.code \in 200..299
    THEN (IF resp.body.kind = "notjson" THEN "retry" ELSE "ok")
    ELSE IF resp.kind = "status" /\ resp.code = 401 THEN "unauth"
    ELSE "retry"

\* api.py:170-191  outcome of one attempt: "ok" returns the body, "unauth"
\* clears the cache and returns None, "retry" records last_error
Classify(resp) ==
    IF resp.kind = "status" /\ resp.code = 200
    THEN (IF resp.body.kind = "notjson" THEN "retry" ELSE "ok")
    ELSE IF resp.kind = "status" /\ resp.code = 401 THEN "unauth"
    ELSE "retry"

\* variant: the id is not parsed before it is put in the path
SeasonsIdValidNoParse(tmdbid) ==
    /\ Truthy(tmdbid)
    /\ PyToStr(tmdbid) \notin {StrTv, StrMovie}

\* api.py:230-238  list_all_seasons accepts the id
SeasonsIdValid(tmdbid) ==
    /\ Truthy(tmdbid)
    /\ PyToStr(tmdbid) \notin {StrTv, StrMovie}
    /\ PyToInt(tmdbid).ok

\* variant: a falsy body is returned as None
ProgressResultFalsyNone(data) ==
    IF data.kind \in {"none", "empty"} THEN [none |-> TRUE, items |-> <<>>]
    ELSE [none |-> FALSE, items |-> data.items]

\* api.py:324-326  get_download_progress: None stays None, a falsy body becomes []
ProgressResult(data) ==
    IF data.kind = "none" THEN [none |-> TRUE, items |-> <<>>]
    ELSE [none |-> FALSE, items |-> data.items]

\* --------------------------------------------------------- the environment
StatusCodes == {200, 201, 401, 500}
Status(code, body) == [kind |-> "status", code |-> code, body |-> body]
Raised(kind) == [kind |-> kind, code |-> 0, body |-> NoneData]

\* what the backend answered, as the network saw it: the HTTP status class,
\* or "err" for a 5xx status, a timeout or a connection failure
Outcome(resp) ==
    IF resp.kind # "status" THEN "err"
    ELSE IF resp.code = 200 THEN "200"
    ELSE IF resp.code = 401 THEN "401"
    ELSE IF resp.code \in 200..299 THEN "2xx"
    ELSE "err"

\* bodies the backend may send with a 200, per endpoint; every token it
\* issues is a new one, named by its serial number
LoginBodies ==
    {NotJson, EmptyData, ObjData}
    \cup (IF issued < MaxTokens THEN {LoginBody(issued + 1, l) : l \in Lifetimes} ELSE {})
OpBodies(o) ==
    {NotJson, NoneData, EmptyData}
    \cup (CASE o \in {"sub_movie", "sub_series"} -> {FlagBody(TRUE), FlagBody(FALSE)}
            [] o = "search" -> {ListBody(l) : l \in MovieLists}
            [] o = "seasons" -> {ListBody(l) : l \in SeasonLists}
            [] OTHER -> {ListBody(<<DownloadItem>>)})

Responses(p) ==
    {Status(200, b) : b \in IF req[p].login THEN LoginBodies ELSE OpBodies(req[p].op)}
    \cup {Status(c, NoneData) : c \in StatusCodes \ {200}}
    \cup {Raised("timeout"), Raised("connect")}

\* ------------------------------------------------------------ _request etc.
\* api.py:148, 168, 178, 197, 102  the whole call returns None (also out of
\* _get_mp_token and _get_headers); the locals of the frame are gone
Fail(r) == [r EXCEPT !.pc = "ret", !.data = NoneData, !.login = FALSE, !.attempt = 0,
                     !.current_time = 0, !.wake = 0]

\* api.py:145-157  headers are complete: enter the retry loop of the target request
EnterLoop(r, tok) ==
    IF InRange(0)
    THEN [r EXCEPT !.pc = "req_send", !.login = FALSE, !.attempt = 0, !.token = tok,
                   !.current_time = 0, !.data = NoneData]
    ELSE [Fail(r) EXCEPT !.token = tok]

\* variant: the request goes on without an Authorization header
NoHeadersProceed(r) == EnterLoop(r, 0)

\* api.py:102, 112-114, 147-148  no token: _get_headers returns None and the
\* outer _request returns None before its loop
NoHeaders(r) == Fail(r)

\* api.py:71-91  the cache is not valid: start the login request, if there is a password
StartLogin(r) ==
    IF mp_password = "" \/ ~InRange(0)
    THEN NoHeaders(r)
    ELSE [r EXCEPT !.pc = "req_send", !.login = TRUE, !.attempt = 0]

\* api.py:157, 196-197  top of the loop after a failed attempt: the next
\* attempt, or the loop is over and None is returned
NextAttempt(r) ==
    IF InRange(r.attempt + 1)
    THEN [r EXCEPT !.pc = "req_send", !.attempt = @ + 1, !.wake = 0]
    ELSE IF r.login THEN NoHeaders(r) ELSE Fail(r)

\* api.py:230-245, 141-146, 64-65: validation of the operation's argument, then
\* _request -> _get_headers -> _get_mp_token reads the clock and takes the lock
RequestStart(p) ==
    /\ req[p].pc = "start"
    /\ IF req[p].op = "seasons" /\ ~SeasonsIdValid(req[p].tmdbid)
       THEN /\ req' = [req EXCEPT ![p] = Fail(@)]
            /\ UNCHANGED token_lock
       ELSE /\ token_lock = NoProc
            /\ token_lock' = p
            /\ req' = [req EXCEPT ![p].pc = "gt_locked", ![p].current_time = now]
    /\ UNCHANGED <<dlgVars, cfgVars, cacheVars, now, issued, obs, rejected, since401>>

\* api.py:66-91  under the lock: return the cached token, or leave the lock and
\* start the login request
GetTokenCheck(p) ==
    /\ req[p].pc = "gt_locked"
    /\ token_lock = p
    /\ token_lock' = NoProc
    /\ since401' = "none"
    /\ IF CacheValid(cached_token, token_expires_at, req[p].current_time)
       THEN /\ req' = [req EXCEPT ![p] = EnterLoop(@, cached_token)]
            /\ obs' = obs
       ELSE /\ req' = [req EXCEPT ![p] = StartLogin(@)]
            /\ obs' = [obs EXCEPT ![p].nlogin = IF mp_password = "" THEN @ ELSE @ + 1]
    /\ UNCHANGED <<dlgVars, cfgVars, cacheVars, now, issued, rejected>>

\* api.py:159-165  one attempt is sent
RequestSend(p) ==
    /\ req[p].pc = "req_send"
    /\ req' = [req EXCEPT ![p].pc = "req_flight"]
    /\ obs' = IF req[p].login THEN [obs EXCEPT ![p].lsent = @ + 1] ELSE [obs EXCEPT ![p].sent = @ + 1]
    /\ UNCHANGED <<dlgVars, cfgVars, cacheVars, token_lock, now, issued, rejected, since401>>

\* the answer to the attempt is noted for the frame it belongs to
Noted(p, resp) ==
    IF req[p].login THEN [obs EXCEPT ![p].llast = Outcome(resp)]
    ELSE [obs EXCEPT ![p].last = Outcome(resp)]

\* api.py:170-171 (+93-97 for the login): status 200 with a JSON body
RecvOk(p, resp) ==
    /\ obs' = [Noted(p, resp) EXCEPT ![p].ok = ~req[p].login]
    /\ IF req[p].login
       THEN IF HasAccessToken(resp.body)
            THEN /\ token_lock = NoProc
                 /\ token_lock' = p
                 /\ req' = [req EXCEPT ![p].pc = "gt_store", ![p].data = resp.body]
                 /\ issued' = resp.body.access_token
            ELSE /\ req' = [req EXCEPT ![p] = NoHeaders(@)]
                 /\ UNCHANGED <<token_lock, issued>>
       ELSE /\ req' = [req EXCEPT ![p].pc = "ret", ![p].attempt = 0,
                                  ![p].data = IF resp.body.kind = "none" THEN NoneData ELSE resp.body]
            /\ UNCHANGED <<token_lock, issued>>

\* api.py:172-175  status 401: take the lock to clear the cache
RecvUnauth(p, resp) ==
    /\ token_lock = NoProc
    /\ token_lock' = p
    /\ req' = [req EXCEPT ![p].pc = "req_clr"]
    /\ obs' = Noted(p, resp)
    /\ UNCHANGED issued

\* api.py:179-197  any other status or an exception: sleep and go round the
\* loop again, or leave the loop
RecvRetry(p, resp) ==
    /\ IF MoreAttempts(req[p].attempt)
       THEN /\ req' = [req EXCEPT ![p].pc = "req_sleep", ![p].wake = now + RetryDelay(req[p].attempt)]
            /\ obs' = IF req[p].login
                      THEN [obs EXCEPT ![p].ldelays = Append(@, RetryDelay(req[p].attempt)),
                                       ![p].llast = Outcome(resp)]
                      ELSE [obs EXCEPT ![p].delays = Append(@, RetryDelay(req[p].attempt)),
                                       ![p].last = Outcome(resp)]
       ELSE /\ req' = [req EXCEPT ![p] = NextAttempt(@)]
            /\ obs' = Noted(p, resp)
    /\ UNCHANGED <<token_lock, issued>>

\* api.py:159-197  the response (or exception) of the attempt in flight
RequestRecv(p) ==
    /\ req[p].pc = "req_flight"
    /\ \E resp \in Responses(p) :
          CASE Classify(resp) = "ok" -> RecvOk(p, resp)
            [] Classify(resp) = "unauth" -> RecvUnauth(p, resp)
            [] OTHER -> RecvRetry(p, resp)
    /\ UNCHANGED <<dlgVars, cfgVars, cacheVars, now, rejected, since401>>

\* api.py:194, 157  the sleep is over: next iteration of the loop
RequestWake(p) ==
    /\ req[p].pc = "req_sleep"
    /\ now >= req[p].wake
    /\ req' = [req EXCEPT ![p] = NextAttempt(@)]
    /\ UNCHANGED <<dlgVars, cfgVars, cacheVars, token_lock, now, issued, obs, rejected, since401>>

\* api.py:97-101  under the lock: store the new token and its expiry, return it
GetTokenStore(p) ==
    /\ req[p].pc = "gt_store"
    /\ token_lock = p
    /\ token_lock' = NoProc
    /\ cached_token' = req[p].data.access_token
    /\ token_expires_at' = ExpiresAt(req[p].current_time, req[p].data)
    /\ req' = [req EXCEPT ![p] = EnterLoop(@, req[p].data.access_token)]
    /\ obs' = [obs EXCEPT ![p].lsent = 0, ![p].ldelays = <<>>]
    /\ since401' = IF since401 = "cleared" THEN "refilled" ELSE since401
    /\ UNCHANGED <<dlgVars, cfgVars, now, issued, rejected>>

\* api.py:175-178  under the lock: clear the cache, return None
RequestClear(p) ==
    /\ req[p].pc = "req_clr"
    /\ token_lock = p
    /\ token_lock' = NoProc
    /\ cached_token' = 0
    /\ token_expires_at' = 0
    /\ req' = [req EXCEPT ![p] = IF req[p].login THEN NoHeaders(@) ELSE Fail(@)]
    /\ rejected' = IF req[p].login THEN rejected ELSE rejected \cup {req[p].token}
    /\ since401' = IF req[p].login THEN since401 ELSE "cleared"
    /\ UNCHANGED <<dlgVars, cfgVars, now, issued, obs>>

\* api.py:331-333  clear_token_cache() is called (manual refresh) by a
\* coroutine that is in no other call: it takes the lock
ClearTokenCache(p) ==
    /\ req[p].pc = "idle"
    /\ dlg[p].pc = "idle"
    /\ token_lock = NoProc
    /\ token_lock' = p
    /\ req' = [req EXCEPT ![p] = [IdleReq EXCEPT !.pc = "cc_locked", !.op = "clear"]]
    /\ UNCHANGED <<dlgVars, cfgVars, cacheVars, now, issued, obs, rejected, since401>>

\* api.py:333-336  under the lock: the cache is emptied
ClearTokenCacheDone(p) ==
    /\ req[p].pc = "cc_locked"
    /\ token_lock = p
    /\ token_lock' = NoProc
    /\ cached_token' = 0
    /\ token_expires_at' = 0
    /\ req' = [req EXCEPT ![p] = IdleReq]
    /\ UNCHANGED <<dlgVars, cfgVars, now, issued, obs, rejected, since401>>

\* the clock moves on to a later instant: one of points, or the end of a sleep
TickTo(points, horizon) ==
    /\ \E t \in points \cup {req[p].wake : p \in {q \in Procs : req[q].pc = "req_sleep"}} :
          /\ t > now
          /\ t <= horizon
          /\ now' = t
    /\ UNCHANGED <<dlgVars, cfgVars, cacheVars, token_lock, issued, req, obs, rejected, since401>>

Tick == TickTo(TimePoints, MaxTime)
TickNear == TickTo(NearPoints, NearHorizon)

\* ------------------------------------------------- callers of the API client
\* Identifiers handed to list_all_seasons
TmdbIds ==
    {PyNone, PyInt(0), PyInt(7), PyStr(<<>>), PyStr(StrTv), PyStr(StrMovie),
     PyStr(<<"7">>), PyStr(<<" ", "7">>), PyStr(<<"a">>), PyStr(<<"7", "a">>), PyStr(<<"-">>)}

\* a coroutine calls one of the client's methods: get_download_progress()
\* (api.py:311) or list_all_seasons(id) (api.py:219)
CallOp(p, ops) ==
    /\ req[p].pc = "idle"
    /\ \E o \in ops :
       \E id \in IF o = "seasons" THEN TmdbIds ELSE {PyNone} :
          req' = [req EXCEPT ![p] = [IdleReq EXCEPT !.pc = "start", !.op = o, !.tmdbid = id]]
    /\ obs' = [obs EXCEPT ![p] = IdleObs]
    /\ UNCHANGED <<dlgVars, cfgVars, cacheVars, token_lock, now, issued, rejected, since401>>

CallProgress(p) == CallOp(p, {"progress"})
CallAny(p) == CallOp(p, {"progress", "seasons"})

\* the call has returned to its caller
Done(p) ==
    /\ req[p].pc = "ret"
    /\ req' = [req EXCEPT ![p] = IdleReq]
    /\ obs' = [obs EXCEPT ![p] = IdleObs]
    /\ UNCHANGED <<dlgVars, cfgVars, cacheVars, token_lock, now, issued, rejected, since401>>

\* api.py:28-39  the client after __init__
ApiInit ==
    /\ base_url = "http://mp"
    /\ mp_username = "admin"
    /\ mp_password \in {"", "secret"}
    /\ max_retries \in 0..MaxRetriesCfg
    /\ retry_delay \in 0..MaxRetryDelay
    /\ cached_token = 0
    /\ token_expires_at = 0
    /\ token_lock = NoProc
    /\ now = 0
    /\ issued = 0
    /\ req = [p \in Procs |-> IdleReq]
    /\ obs = [p \in Procs |-> IdleObs]
    /\ rejected = {}
    /\ since401 = "none"

\* ------------------------------------------------ MoviePilotPlugin: /sub
\* The dialogue runs on astrbot's session_waiter (main.py:15-18, 148):
\*  - selection_waiter(event) registers a waiter for the chat of the event,
\*    starts its timer and suspends the command on the waiter's future;
\*  - every later message of that chat is handed to the handler, one message
\*    at a time, as long as the waiter is registered and its future pending;
\*  - controller.keep(60, reset_timeout=True) replaces the timer by a new one,
\*    controller.stop() resolves the future, an exception leaving the handler
\*    resolves it with that exception - each only if the future is pending;
\*  - the timer resolves a pending future with TimeoutError when it runs out,
\*    also while the handler is suspended in a turn, which then runs on;
\*  - once the future is resolved the waiter leaves the registry and the
\*    command resumes in _wait_for_movie_selection.
\*  - while a waiter is registered for a chat, a message of that chat goes to
\*    the waiter and starts no command.
\* The plugin keeps its own state per sender id (main.py:37, 97, 146).
\* main.py:148  timeout of the session waiter, and of every keep()
TurnTimeout == 60

\* state[o]: the entry of owner o in MoviePilotPlugin.state, or none
NoState == [present |-> FALSE, selected_movie |-> NoObj, seasons |-> <<>>, waiting_for |-> ""]
SeasonState(movie, seasons) ==
    [present |-> TRUE, selected_movie |-> movie, seasons |-> seasons, waiting_for |-> "season"]

\* dlg[p]: pc = where subscribe / _wait_for_movie_selection is suspended;
\* future = the waiter's future; armed, deadline = the waiter's running timer;
\* log = the client methods the replies of this dialogue have called;
\* phase, chosen, listed = what the dialogue's own turns have established;
\* last = how the previous command of this slot ended; said = the message the
\* last turn of this dialogue has sent to the user, or that its send failed; quiet = the timer ran out
\* while the waiter was waiting for a reply, none being handled; cmd, message
\* = the command this slot received last and the text after it
IdleDlg == [pc |-> "idle", owner |-> "", chat |-> "", movies |-> <<>>, future |-> "none",
            armed |-> FALSE, deadline |-> 0, log |-> <<>>, phase |-> "none",
            chosen |-> NoObj, listed |-> <<>>, last |-> "", said |-> "", quiet |-> FALSE,
            cmd |-> "", message |-> <<>>]
\* turn[p]: pc = where selection_waiter is suspended; input = the stripped
\* reply; msg = the message of the event.send under way, then = what follows
\* it; movie, seasons, season = locals of the handler
NoTurn == [pc |-> "none", input |-> <<>>, msg |-> "", then |-> "", movie |-> NoObj, seasons |-> <<>>,
           season |-> 0]

\* variant: one entry for everybody
UserIdShared(p) == "u1"

\* main.py:146  user_id = event.get_sender_id(), of the /sub command: the key
\* of the dialogue's entry in MoviePilotPlugin.state
UserId(p) == dlg[p].owner

Call(o, movie, n) == [op |-> o, title |-> movie.title, season |-> n]
Invoke(o, id) == [IdleReq EXCEPT !.pc = "start", !.op = o, !.tmdbid = id]

\* main.py:86  not message or not message.strip()
BlankMessage(m) == Strip(m) = <<>>

\* variant: the user name is not looked at
ConfigValidNoUser == base_url # "" /\ mp_password # ""

\* api.py:47-54  validate_config
ConfigValid == base_url # "" /\ mp_username # "" /\ mp_password # ""

\* main.py:108, 252  "if not movies", "if not seasons": None or an empty list
NoResult(data) == data.kind # "obj" \/ data.items = <<>>

\* api.py:272, 303  response.get("success", False) if response else False
Success(data) == data.kind = "obj" /\ data.success

\* main.py:237  the TV title carries no usable tmdb_id
NoTmdbId(movie) == ~Truthy(movie.tmdb_id) \/ PyToStr(movie.tmdb_id) \in {StrTv, StrMovie}

\* main.py:333  any(s.get("season_number") == season_number for s in seasons)
ValidSeason(seasons, n) == \E k \in 1..Len(seasons) : seasons[k].season_number = n

\* variant: 0 is taken as a season number when the list has a season 0
SeasonCancelUnlessListed(n, seasons) == n = 0 /\ ~ValidSeason(seasons, n)

\* main.py:317  season_number == 0 cancels, before the season list is looked at
SeasonCancel(n, seasons) == n = 0

\* main.py:192, 199  index = int(user_input) - 1; index == -1 cancels
IndexCancel(index) == index = -1

\* variant: keep(timeout=60) without reset_timeout, which adds the 60 s to the
\* time the running timer has left
KeepRemaining(d) == [d EXCEPT !.armed = TRUE, !.deadline = @ + TurnTimeout]

\* controller.keep(timeout=60, reset_timeout=True): the running timer is
\* replaced by one that ends 60 s from now
Keep(d) == [d EXCEPT !.armed = TRUE, !.deadline = now + TurnTimeout]
\* controller.stop(): the future is resolved unless it already is
Stop(d, how) == [d EXCEPT !.future = IF @ = "pending" THEN how ELSE @]

\* variant: the lock is still the coroutine's when it leaves the block
ReleasedLate(p) == p

\* main.py:408-409, 413-414, 418-419  leaving "async with self.state_lock"
\* sets the lock free
Released(p) == NoProc

\* main.py:77-102  /sub <message>: usage and configuration checks, then the search
Sub(p, owners, chats) ==
    /\ dlg[p].pc = "idle"
    /\ turn[p].pc = "none"
    /\ req[p].pc = "idle"
    /\ \E m \in Messages, o \in owners, c \in chats :
          /\ sessions[c] = NoProc
          /\ IF BlankMessage(m)
             THEN /\ dlg' = [dlg EXCEPT ![p].last = "usage", ![p].cmd = "sub", ![p].message = m]
                  /\ UNCHANGED <<req, obs>>
             ELSE IF ~ConfigValid
             THEN /\ dlg' = [dlg EXCEPT ![p].last = "config", ![p].cmd = "sub", ![p].message = m]
                  /\ UNCHANGED <<req, obs>>
             ELSE /\ dlg' = [dlg EXCEPT ![p] = [IdleDlg EXCEPT !.pc = "searching", !.owner = o, !.chat = c,
                                                              !.cmd = "sub", !.message = m,
                                                              !.armed = dlg[p].armed,
                                                              !.deadline = dlg[p].deadline]]
                  /\ req' = [req EXCEPT ![p] = Invoke("search", PyNone)]
                  /\ obs' = [obs EXCEPT ![p] = IdleObs]
    /\ UNCHANGED <<cfgVars, cacheVars, token_lock, now, issued, rejected, since401>>
    /\ UNCHANGED <<state, state_lock, sessions, turn>>

\* main.py:102-136, 146-162  the search has returned: nothing found ends the
\* command; otherwise the waiter is registered for the chat and its timer started
SearchDone(p) ==
    /\ dlg[p].pc = "searching"
    /\ req[p].pc = "ret"
    /\ req' = [req EXCEPT ![p] = IdleReq]
    /\ obs' = [obs EXCEPT ![p] = IdleObs]
    /\ IF NoResult(req[p].data)
       THEN /\ dlg' = [dlg EXCEPT ![p].pc = "idle", ![p].last = "nomatch"]
            /\ UNCHANGED sessions
       ELSE /\ dlg' = [dlg EXCEPT ![p] = Keep([@ EXCEPT !.pc = "waiting", !.movies = req[p].data.items,
                                                        !.future = "pending", !.phase = "movie"])]
            /\ sessions' = [sessions EXCEPT ![dlg[p].chat] = p]
    /\ UNCHANGED <<cfgVars, cacheVars, token_lock, now, issued, rejected, since401>>
    /\ UNCHANGED <<state, state_lock, turn>>

\* main.py:149-151  a message arrives in the chat of a registered waiter whose
\* future is pending and which is handling no other message: selection_waiter
\* starts and reaches _get_user_state
Reply(p) ==
    /\ dlg[p].chat \in Chats
    /\ sessions[dlg[p].chat] = p
    /\ dlg[p].future = "pending"
    /\ turn[p].pc = "none"
    /\ state_lock = NoProc
    /\ state_lock' = p
    /\ \E text \in Replies : turn' = [turn EXCEPT ![p] = [NoTurn EXCEPT !.pc = "t_get", !.input = Strip(text)]]
    /\ UNCHANGED <<apiVars, state, sessions, dlg>>

\* the handler sends a message and then keeps, stops, or stores the season state
Say(t, msg, then) == [t EXCEPT !.pc = "t_send", !.msg = msg, !.then = then]

\* main.py:151-159, 191-218, 236-245, 309-323  the state is read under the
\* lock; by its waiting_for the reply is taken as a season number or as an index
TurnGet(p) ==
    /\ turn[p].pc = "t_get"
    /\ state_lock = p
    /\ LET st == state[UserId(p)]
           n == IntOfStr(turn[p].input)
           movies == dlg[p].movies
           index == n.val - 1
           movie == movies[index + 1]
       IN  IF st.waiting_for = "season"
           THEN /\ IF ~n.ok THEN /\ turn' = [turn EXCEPT ![p] = Say(@, "not_a_season", "keep")]
                                 /\ state_lock' = Released(p)
                   ELSE IF SeasonCancel(n.val, st.seasons)
                   THEN /\ turn' = [turn EXCEPT ![p] = Say(@, "cancelled", "stop")]
                                          /\ state_lock' = Released(p)
                   ELSE /\ turn' = [turn EXCEPT ![p].pc = "t_get2", ![p].season = n.val]
                        /\ state_lock' = p
                /\ UNCHANGED <<req, obs, dlg>>
           ELSE /\ state_lock' = Released(p)
                /\ IF ~n.ok
                   THEN /\ turn' = [turn EXCEPT ![p] = Say(@, "not_a_number", "keep")]
                        /\ UNCHANGED <<req, obs, dlg>>
                   ELSE IF IndexCancel(index)
                   THEN /\ turn' = [turn EXCEPT ![p] = Say(@, "cancelled", "stop")]
                        /\ UNCHANGED <<req, obs, dlg>>
                   ELSE IF ~(0 <= index /\ index < Len(movies))
                   THEN /\ turn' = [turn EXCEPT ![p] = Say(@, "bad_index", "keep")]
                        /\ UNCHANGED <<req, obs, dlg>>
                   ELSE IF movie.type = TypeTv
                   THEN IF NoTmdbId(movie)
                        THEN /\ turn' = [turn EXCEPT ![p] = Say(@, "no_tmdb_id", "stop")]
                             /\ UNCHANGED <<req, obs, dlg>>
                        ELSE /\ turn' = [turn EXCEPT ![p].pc = "t_api", ![p].movie = movie]
                             /\ req' = [req EXCEPT ![p] = Invoke("seasons", movie.tmdb_id)]
                             /\ obs' = [obs EXCEPT ![p] = IdleObs]
                             /\ dlg' = [dlg EXCEPT ![p].log = Append(@, Call("seasons", movie, 0))]
                   ELSE /\ turn' = [turn EXCEPT ![p].pc = "t_api", ![p].movie = movie]
                        /\ req' = [req EXCEPT ![p] = Invoke("sub_movie", PyNone)]
                        /\ obs' = [obs EXCEPT ![p] = IdleObs]
                        /\ dlg' = [dlg EXCEPT ![p].log = Append(@, Call("sub_movie", movie, 0))]
    /\ UNCHANGED <<cfgVars, cacheVars, token_lock, now, issued, rejected, since401>>
    /\ UNCHANGED <<state, sessions>>

\* main.py:323-342  season reply: the state is read again under the lock; the
\* number must be one of the stored seasons
TurnGet2(p) ==
    /\ turn[p].pc = "t_get2"
    /\ state_lock = p
    /\ state_lock' = Released(p)
    /\ LET st == state[UserId(p)]
       IN  IF st.selected_movie = NoObj \/ st.seasons = <<>>
           THEN /\ turn' = [turn EXCEPT ![p] = Say(@, "expired", "stop")]
                /\ UNCHANGED <<req, obs, dlg>>
           ELSE IF ~ValidSeason(st.seasons, turn[p].season)
           THEN /\ turn' = [turn EXCEPT ![p] = Say(@, "bad_season", "keep")]
                /\ UNCHANGED <<req, obs, dlg>>
           ELSE /\ turn' = [turn EXCEPT ![p].pc = "t_api", ![p].movie = st.selected_movie]
                /\ req' = [req EXCEPT ![p] = Invoke("sub_series", PyNone)]
                /\ obs' = [obs EXCEPT ![p] = IdleObs]
                /\ dlg' = [dlg EXCEPT ![p].log = Append(@, Call("sub_series", st.selected_movie, turn[p].season))]
    /\ UNCHANGED <<cfgVars, cacheVars, token_lock, now, issued, rejected, since401>>
    /\ UNCHANGED <<state, sessions>>

\* main.py:245-279, 342-364, 382-403  the client method has returned: the
\* season list or the result of the subscription is sent to the user
TurnApiDone(p) ==
    /\ turn[p].pc = "t_api"
    /\ req[p].pc = "ret"
    /\ req' = [req EXCEPT ![p] = IdleReq]
    /\ obs' = [obs EXCEPT ![p] = IdleObs]
    /\ turn' = [turn EXCEPT ![p] =
                  IF req[p].op = "seasons"
                  THEN IF NoResult(req[p].data)
                       THEN Say(@, "no_seasons", "stop")
                       ELSE [Say(@, "season_list", "set") EXCEPT !.seasons = req[p].data.items]
                  ELSE Say(@, IF Success(req[p].data) THEN "subscribed" ELSE "sub_failed", "stop")]
    /\ UNCHANGED <<cfgVars, cacheVars, token_lock, now, issued, rejected, since401>>
    /\ UNCHANGED <<state, state_lock, sessions, dlg>>

\* event.send has returned, or has raised: an exception leaves the handler
\* and stops the waiter with it; otherwise the handler goes on to keep(),
\* stop(), or _set_user_state (main.py:194-207, 239-255, 279-282, 312-336,
\* 364-365, 403-404)
TurnSent(p) ==
    /\ turn[p].pc = "t_send"
    /\ \E sent \in BOOLEAN :
          IF ~sent
          THEN /\ dlg' = [dlg EXCEPT ![p] = Stop([@ EXCEPT !.said = "send_failed"], "error")]
               /\ turn' = [turn EXCEPT ![p] = NoTurn]
               /\ UNCHANGED state_lock
          ELSE IF turn[p].then = "set"
          THEN /\ state_lock = NoProc
               /\ state_lock' = p
               /\ turn' = [turn EXCEPT ![p].pc = "t_set"]
               /\ dlg' = [dlg EXCEPT ![p].said = turn[p].msg]
          ELSE /\ dlg' = [dlg EXCEPT ![p] = IF turn[p].then = "keep"
                                            THEN Keep([@ EXCEPT !.said = turn[p].msg])
                                            ELSE Stop([@ EXCEPT !.said = turn[p].msg], "result")]
               /\ turn' = [turn EXCEPT ![p] = NoTurn]
               /\ UNCHANGED state_lock
    /\ UNCHANGED <<apiVars, state, sessions>>

\* main.py:282-291, 411-414  under the lock: the owner's entry becomes the
\* season state; then keep()
TurnSet(p) ==
    /\ turn[p].pc = "t_set"
    /\ state_lock = p
    /\ state_lock' = Released(p)
    /\ state' = [state EXCEPT ![UserId(p)] = SeasonState(turn[p].movie, turn[p].seasons)]
    /\ dlg' = [dlg EXCEPT ![p] = Keep([@ EXCEPT !.phase = "season", !.chosen = turn[p].movie,
                                                !.listed = turn[p].seasons])]
    /\ turn' = [turn EXCEPT ![p] = NoTurn]
    /\ UNCHANGED <<apiVars, sessions>>

\* the waiter's timer runs out: a pending future fails with TimeoutError,
\* whether or not a reply is being handled (main.py:148)
TimerFire(p) ==
    /\ dlg[p].armed
    /\ now >= dlg[p].deadline
    /\ dlg' = [dlg EXCEPT ![p] = [Stop(@, "timeout") EXCEPT
                                     !.armed = FALSE,
                                     !.quiet = dlg[p].future = "pending" /\ turn[p].pc = "none"]]
    /\ UNCHANGED <<apiVars, state, state_lock, sessions, turn>>

\* main.py:162-169  the future is resolved: the waiter leaves the registry of
\* its chat; a timeout or an exception is reported to the user first; then
\* the finally block reaches _clear_user_state
MainWake(p) ==
    /\ dlg[p].pc = "waiting"
    /\ dlg[p].future # "pending"
    /\ sessions' = [sessions EXCEPT ![dlg[p].chat] = NoProc]
    /\ IF dlg[p].future = "result"
       THEN /\ state_lock = NoProc
            /\ state_lock' = p
            /\ dlg' = [dlg EXCEPT ![p].pc = "clearing"]
       ELSE /\ dlg' = [dlg EXCEPT ![p].pc = "notify"]
            /\ UNCHANGED state_lock
    /\ UNCHANGED <<apiVars, state, turn>>

\* main.py:164-169  the report has been sent (or its send has raised): finally
MainNotified(p) ==
    /\ dlg[p].pc = "notify"
    /\ state_lock = NoProc
    /\ state_lock' = p
    /\ dlg' = [dlg EXCEPT ![p].pc = "clearing"]
    /\ UNCHANGED <<apiVars, state, sessions, turn>>

\* main.py:169-170, 416-419  under the lock: the owner's entry is removed
MainClear(p) ==
    /\ dlg[p].pc = "clearing"
    /\ state_lock = p
    /\ state_lock' = Released(p)
    /\ state' = [state EXCEPT ![UserId(p)] = NoState]
    /\ dlg' = [dlg EXCEPT ![p].pc = "idle", ![p].last = dlg[p].future]
    /\ UNCHANGED <<apiVars, sessions, turn>>

\* main.py:421-431  /download: configuration check, then get_download_progress
Download(p) ==
    /\ dlg[p].pc = "idle"
    /\ turn[p].pc = "none"
    /\ req[p].pc = "idle"
    /\ \E c \in Chats : sessions[c] = NoProc
    /\ IF ~ConfigValid
       THEN /\ dlg' = [dlg EXCEPT ![p].last = "config", ![p].cmd = "download", ![p].message = <<>>]
            /\ UNCHANGED <<req, obs>>
       ELSE /\ dlg' = [dlg EXCEPT ![p].pc = "downloading", ![p].last = "", ![p].cmd = "download",
                                  ![p].message = <<>>]
            /\ req' = [req EXCEPT ![p] = Invoke("progress", PyNone)]
            /\ obs' = [obs EXCEPT ![p] = IdleObs]
    /\ UNCHANGED <<cfgVars, cacheVars, token_lock, now, issued, rejected, since401>>
    /\ UNCHANGED <<state, state_lock, sessions, turn>>

\* api.py:324-326, main.py:437-484  get_download_progress returns; the command
\* reports that the service cannot be reached, that nothing is downloading, or
\* the tasks
DownloadDone(p) ==
    /\ dlg[p].pc = "downloading"
    /\ req[p].pc = "ret"
    /\ req' = [req EXCEPT ![p] = IdleReq]
    /\ obs' = [obs EXCEPT ![p] = IdleObs]
    /\ LET progress_data == ProgressResult(req[p].data)
       IN  dlg' = [dlg EXCEPT ![p].pc = "idle",
                              ![p].last = IF progress_data.none THEN "unreachable"
                                          ELSE IF Len(progress_data.items) = 0 THEN "nothing"
                                          ELSE "tasks"]
    /\ UNCHANGED <<cfgVars, cacheVars, token_lock, now, issued, rejected, since401>>
    /\ UNCHANGED <<state, state_lock, sessions, turn>>

\* main.py:37-38  the plugin after __init__
DlgInit ==
    /\ state = [o \in Owners |-> NoState]
    /\ state_lock = NoProc
    /\ sessions = [c \in Chats |-> NoProc]
    /\ dlg = [p \in Procs |-> IdleDlg]
    /\ turn = [p \in Procs |-> NoTurn]

vars == <<apiVars, dlgVars>>

\* Two coroutines share the client; retries are immediate (mp_retry_delay = 0).
Init ==
    /\ ApiInit
    /\ DlgInit
    /\ max_retries <= ConcRetries
    /\ retry_delay = 0

Next ==
    \/ \E p \in Procs : CallProgress(p)
    \/ \E p \in Procs : RequestStart(p)
    \/ \E p \in Procs : GetTokenCheck(p)
    \/ \E p \in Procs : RequestSend(p)
    \/ \E p \in Procs : RequestRecv(p)
    \/ \E p \in Procs : RequestWake(p)
    \/ \E p \in Procs : GetTokenStore(p)
    \/ \E p \in Procs : RequestClear(p)
    \/ \E p \in Procs : Done(p)
    \/ Tick

Spec == Init /\ [][Next]_vars

\* One coroutine at a time calls the client, over every retry configuration.
NextRetry ==
    \/ CallAny("p1")
    \/ RequestStart("p1")
    \/ GetTokenCheck("p1")
    \/ RequestSend("p1")
    \/ RequestRecv("p1")
    \/ RequestWake("p1")
    \/ GetTokenStore("p1")
    \/ RequestClear("p1")
    \/ Done("p1")
    \/ TickNear

InitRetry == ApiInit /\ DlgInit

SpecRetry == InitRetry /\ [][NextRetry]_vars

\* One chat: /sub commands of one owner, one after the other, with the
\* replies to them; retries are immediate.
DlgHorizon == 120
DlgRetries == 2

TickDlg == TickTo({dlg[p].deadline : p \in {q \in Procs : dlg[q].armed}}, DlgHorizon)

InitDialogue ==
    /\ ApiInit
    /\ DlgInit
    /\ max_retries \in 1..DlgRetries
    /\ retry_delay = 0

NextDialogue ==
    \/ Sub("p1", {"u1"}, {"c1"})
    \/ SearchDone("p1")
    \/ Reply("p1")
    \/ TurnGet("p1")
    \/ TurnGet2("p1")
    \/ TurnApiDone("p1")
    \/ TurnSent("p1")
    \/ TurnSet("p1")
    \/ TimerFire("p1")
    \/ MainWake("p1")
    \/ MainNotified("p1")
    \/ MainClear("p1")
    \/ RequestStart("p1")
    \/ GetTokenCheck("p1")
    \/ RequestSend("p1")
    \/ RequestRecv("p1")
    \/ RequestWake("p1")
    \/ GetTokenStore("p1")
    \/ RequestClear("p1")
    \/ TickDlg

SpecDialogue == InitDialogue /\ [][NextDialogue]_vars

\* The commands /sub and /download of one chat, one after the other, under
\* every configuration: each of mp_url, mp_username and mp_password set or not.
InitCommands ==
    /\ base_url \in {"", "http://mp"}
    /\ mp_username \in {"", "admin"}
    /\ mp_password \in {"", "secret"}
    /\ max_retries \in 1..DlgRetries
    /\ retry_delay = 0
    /\ cached_token = 0
    /\ token_expires_at = 0
    /\ token_lock = NoProc
    /\ now = 0
    /\ issued = 0
    /\ req = [p \in Procs |-> IdleReq]
    /\ obs = [p \in Procs |-> IdleObs]
    /\ rejected = {}
    /\ since401 = "none"
    /\ DlgInit

NextCommands ==
    \/ NextDialogue
    \/ Download("p1")
    \/ DownloadDone("p1")

SpecCommands == InitCommands /\ [][NextCommands]_vars

\* Two /sub commands, at the same time or not, of one owner or of two, each
\* owner writing in a chat of their own, within the first 60 s (no timer runs
\* out); the backend is up: every request is answered with status 200 and a
\* result, and the token it issues lasts an hour; the titles carry usable
\* ids, the replies are 1, 2 or a letter.
OwnersLists == {<<MovA, UnkC>>, <<TvB, MovA>>, <<Season(1), Season(2)>>}
OwnersReplies == {<<"1">>, <<"2">>, <<"a">>}

BackendUp(p) ==
    /\ RequestRecv(p)
    /\ req'[p].pc \in {"gt_store", "ret"}
    /\ req'[p].data.kind = "obj"
    /\ req'[p].pc = "gt_store" => req'[p].data.expires_in = Absent
    /\ req'[p].data.items # <<>> => req'[p].data.items \in OwnersLists

ReplyOwn(p) == Reply(p) /\ turn'[p].input \in OwnersReplies

SubOwn(p) == dlg[p].owner = "" /\ (Sub(p, {"u1"}, {"c1"}) \/ Sub(p, {"u2"}, {"c2"}))

InitOwners ==
    /\ ApiInit
    /\ DlgInit
    /\ mp_password = "secret"
    /\ max_retries = 1
    /\ retry_delay = 0

NextOwners ==
    \/ \E p \in Procs : SubOwn(p)
    \/ \E p \in Procs : SearchDone(p)
    \/ \E p \in Procs : ReplyOwn(p)
    \/ \E p \in Procs : TurnGet(p)
    \/ \E p \in Procs : TurnGet2(p)
    \/ \E p \in Procs : TurnApiDone(p)
    \/ \E p \in Procs : TurnSent(p)
    \/ \E p \in Procs : TurnSet(p)
    \/ \E p \in Procs : MainWake(p)
    \/ \E p \in Procs : MainNotified(p)
    \/ \E p \in Procs : MainClear(p)
    \/ \E p \in Procs : RequestStart(p)
    \/ \E p \in Procs : GetTokenCheck(p)
    \/ \E p \in Procs : RequestSend(p)
    \/ \E p \in Procs : BackendUp(p)
    \/ \E p \in Procs : GetTokenStore(p)

SpecOwners == InitOwners /\ [][NextOwners]_vars

\* Two coroutines, each with a /sub command and its dialogue in a chat of its
\* own or with a manual clear_token_cache(), against a backend that answers
\* every request in any way; one attempt per request, no timer runs out.
LocksReplies == {<<"1">>, <<"a">>}

ReplyLocks(p) == Reply(p) /\ turn'[p].input \in LocksReplies

SubLocks(p) == dlg[p].owner = "" /\ (IF p = "p1" THEN Sub(p, {"u1"}, {"c1"}) ELSE Sub(p, {"u2"}, {"c2"}))

NextLocks ==
    \/ \E p \in Procs : SubLocks(p)
    \/ \E p \in Procs : SearchDone(p)
    \/ \E p \in Procs : ReplyLocks(p)
    \/ \E p \in Procs : TurnGet(p)
    \/ \E p \in Procs : TurnGet2(p)
    \/ \E p \in Procs : TurnApiDone(p)
    \/ \E p \in Procs : TurnSent(p)
    \/ \E p \in Procs : TurnSet(p)
    \/ \E p \in Procs : MainWake(p)
    \/ \E p \in Procs : MainNotified(p)
    \/ \E p \in Procs : MainClear(p)
    \/ \E p \in Procs : RequestStart(p)
    \/ \E p \in Procs : GetTokenCheck(p)
    \/ \E p \in Procs : RequestSend(p)
    \/ \E p \in Procs : RequestRecv(p)
    \/ \E p \in Procs : GetTokenStore(p)
    \/ \E p \in Procs : RequestClear(p)
    \/ \E p \in Procs : ClearTokenCache(p)
    \/ \E p \in Procs : ClearTokenCacheDone(p)

SpecLocks == InitOwners /\ [][NextLocks]_vars

\* ------------------------------------------------------------------ claims
\* p's _get_mp_token has just read the cache under the lock
Checks(p) == req[p].pc = "gt_locked" /\ req'[p].pc # "gt_locked"

\* C1: a _get_mp_token call that finds a token in the cache and is made
\* strictly before expiresAt - 300 s returns that token and performs no login
\* request; a call made at or after expiresAt - 300 s starts exactly one
\* login request; no call ever starts more than one.
C1_StepCachedOrOneLogin ==
    \A p \in Procs :
        /\ (req[p].pc = "start" /\ req'[p].pc = "gt_locked") => req'[p].current_time = now
        /\ (Checks(p) /\ cached_token # 0) =>
              IF req[p].current_time < token_expires_at - TokenBuffer
              THEN /\ req'[p].token = cached_token
                   /\ ~req'[p].login
                   /\ obs'[p].nlogin = 0
                   /\ obs'[p].lsent = 0
              ELSE /\ req'[p].login
                   /\ req'[p].pc = "req_send"
                   /\ req'[p].token = 0
                   /\ obs'[p].nlogin = 1
C1_AtMostOneLoginPerCall ==
    \A p \in Procs :
        /\ obs[p].nlogin <= 1
        /\ (req[p].login => obs[p].nlogin = 1)
        /\ (obs[p].nlogin = 0 => obs[p].lsent = 0)
\* C1 (both parts): the step of the cache check and the count of logins per call
C1_CachedTokenUntilBuffer == [][C1_StepCachedOrOneLogin]_vars /\ []C1_AtMostOneLoginPerCall

\* C1 witness: one call is using the cached token without having logged in
\* while another, made inside the buffer window, is refreshing it
C1_Witness ==
    /\ \E p \in Procs : /\ req[p].pc = "req_flight"
                        /\ ~req[p].login
                        /\ req[p].token # 0
                        /\ obs[p].nlogin = 0
    /\ \E q \in Procs : /\ req[q].pc = "req_flight"
                        /\ req[q].login
                        /\ cached_token # 0
                        /\ req[q].current_time >= token_expires_at - TokenBuffer

\* C2: at most one login request is in flight at any time
C2_OneLoginInFlight ==
    Cardinality({p \in Procs : req[p].login /\ req[p].pc = "req_flight"}) <= 1

\* the step in which an authenticated call that received 401 clears the cache
Clears401(p) == req[p].pc = "req_clr" /\ ~req[p].login /\ req'[p].pc = "ret"
\* a token is handed to a call by _get_mp_token
HandsToken(p) == req'[p].token # req[p].token /\ req'[p].token # 0

\* C3: after an authenticated call receives 401 the cached token and expiry
\* are cleared, and the next _get_mp_token performs a fresh login and never
\* returns the invalidated token, in every interleaving
C3_FreshLoginAfter401 ==
    /\ [][\A p \in Procs : Clears401(p) => (cached_token' = 0 /\ token_expires_at' = 0)]_vars
    /\ [][\A p \in Procs : (Checks(p) /\ since401 # "none") =>
                              (req'[p].login /\ obs'[p].nlogin = 1)]_vars
    /\ [][\A p \in Procs : HandsToken(p) => req'[p].token \notin rejected']_vars

\* What the code does keep after a 401: the cache is emptied and stays empty
\* until a login stores a new token; the next _get_mp_token performs a fresh
\* login unless a login that was under way during the 401 has stored its token
\* in between; no call is ever handed a token that has been rejected
InvalidatedNeverReused ==
    /\ [][\A p \in Procs : Clears401(p) => (cached_token' = 0 /\ token_expires_at' = 0)]_vars
    /\ [](since401 = "cleared" => (cached_token = 0 /\ token_expires_at = 0))
    /\ [][\A p \in Procs : (Checks(p) /\ since401 = "cleared") =>
                              (req'[p].login /\ obs'[p].nlogin = 1)]_vars
    /\ [][\A p \in Procs : HandsToken(p) => req'[p].token \notin rejected']_vars
    /\ [](cached_token = 0 \/ cached_token \notin rejected)

\* after a 401 the next _get_mp_token is about to read the cache
AfterClearNextCheck ==
    /\ since401 = "cleared"
    /\ rejected # {}
    /\ \E p \in Procs : req[p].pc = "gt_locked"

Linear(d) == \A k \in 1..Len(d) : d[k] = retry_delay * k
NonDecreasing(d) == \A k \in 1..(Len(d) - 1) : d[k] <= d[k + 1]

\* C4: one _request makes at most max_retries attempts; when its last attempt
\* failed transiently it has made exactly max_retries attempts and returns
\* None; the sleep after failed attempt k is retry_delay * k, never decreasing
C4_BoundedLinearRetry ==
    \A p \in Procs :
        /\ obs[p].sent <= max_retries
        /\ obs[p].lsent <= max_retries
        /\ Linear(obs[p].delays) /\ Linear(obs[p].ldelays)
        /\ NonDecreasing(obs[p].delays) /\ NonDecreasing(obs[p].ldelays)
        /\ Len(obs[p].delays) <= obs[p].sent /\ Len(obs[p].ldelays) <= obs[p].lsent
        /\ (req[p].pc = "ret" /\ obs[p].last = "err") =>
              /\ obs[p].sent = max_retries
              /\ Len(obs[p].delays) = max_retries - 1
              /\ req[p].data = NoneData
        /\ (req[p].pc = "ret" /\ obs[p].llast = "err") =>
              /\ obs[p].lsent = max_retries
              /\ Len(obs[p].ldelays) = max_retries - 1
              /\ req[p].data = NoneData

\* C4 witness: a request gave up after three failed attempts and two growing sleeps
C4_Witness ==
    \E p \in Procs :
        /\ req[p].pc = "ret"
        /\ obs[p].last = "err"
        /\ obs[p].sent = 3
        /\ Len(obs[p].delays) = 2
        /\ obs[p].delays[1] < obs[p].delays[2]

\* C5: once an attempt of a _request received 401 the request makes no
\* further attempt and no sleep: it clears the cache and returns None
C5_NoRetryAfter401 ==
    \A p \in Procs :
        /\ obs[p].last = "401" =>
              /\ req[p].pc \in {"req_clr", "ret"}
              /\ Len(obs[p].delays) = obs[p].sent - 1
              /\ (req[p].pc = "ret" => req[p].data = NoneData)
        /\ obs[p].llast = "401" =>
              /\ req[p].pc \in {"req_clr", "ret"}
              /\ Len(obs[p].ldelays) = obs[p].lsent - 1
              /\ obs[p].sent = 0
              /\ (req[p].pc = "ret" => req[p].data = NoneData)

\* C5 witness: a request returned after a 401 on its first attempt of three
C5_Witness ==
    \E p \in Procs :
        /\ req[p].pc = "ret"
        /\ obs[p].last = "401"
        /\ obs[p].sent = 1
        /\ max_retries = 3

\* C6: a call that obtained no token sends nothing to its target endpoint and
\* returns None
C6_NoTokenNoRequest ==
    \A p \in Procs :
        req[p].token = 0 =>
            /\ obs[p].sent = 0
            /\ (req[p].pc \in {"req_send", "req_flight", "req_sleep", "req_clr"} => req[p].login)
            /\ (req[p].pc = "ret" => req[p].data = NoneData)

\* C6 witness: a call returned after its login request had failed
C6_Witness ==
    \E p \in Procs :
        /\ req[p].pc = "ret"
        /\ obs[p].nlogin = 1
        /\ obs[p].lsent > 0
        /\ req[p].token = 0

\* a step of p inside its login request, before any token is stored
LoginStep(p) == req[p].login /\ req[p].pc # "gt_store" /\ req'[p] # req[p]
CacheUntouched == cached_token' = cached_token /\ token_expires_at' = token_expires_at
LoginFailedReturnsNone ==
    \A p \in Procs : (req[p].pc = "ret" /\ obs[p].nlogin = 1 /\ req[p].token = 0) => req[p].data = NoneData

\* C7: a failed login returns failure and leaves the cached token
\* and expiry as they were, whatever the failure (transient, 401, no access_token)
C7_FailedLoginNeverTouchesCache ==
    /\ [][\A p \in Procs : LoginStep(p) => CacheUntouched]_vars
    /\ []LoginFailedReturnsNone

\* C7 amended: a failed login returns failure; it leaves the cached token and
\* expiry as they were unless an attempt of the login received HTTP 401, in
\* which case both are cleared
C7_FailedLoginKeepsCache ==
    /\ [][\A p \in Procs :
            LoginStep(p) =>
                IF req[p].pc = "req_clr" /\ obs[p].llast = "401"
                THEN cached_token' = 0 /\ token_expires_at' = 0
                ELSE CacheUntouched]_vars
    /\ []LoginFailedReturnsNone

\* C7 witness: a refresh failed transiently and the earlier token is still cached
C7_Witness ==
    \E p \in Procs :
        /\ req[p].pc = "ret"
        /\ obs[p].nlogin = 1
        /\ obs[p].llast = "err"
        /\ req[p].token = 0
        /\ cached_token # 0

\* an identifier the claim says is rejected: empty, "tv", "movie", or not an integer
Unacceptable(id) ==
    \/ id.t = "none"
    \/ id.t = "str" /\ (id.s = <<>> \/ id.s = StrTv \/ id.s = StrMovie \/ ~IntOfStr(id.s).ok)

\* C8: list_all_seasons with an empty, "tv", "movie" or non-integer identifier
\* returns None without a login request or a seasons request
C8_BadIdNoRequest ==
    \A p \in Procs :
        (req[p].op = "seasons" /\ Unacceptable(req[p].tmdbid)) =>
            /\ req[p].pc \in {"start", "ret"}
            /\ obs[p].sent = 0
            /\ obs[p].lsent = 0
            /\ obs[p].nlogin = 0
            /\ (req[p].pc = "ret" => req[p].data = NoneData)

\* C8 witness: list_all_seasons("7a") has returned
C8_Witness ==
    \E p \in Procs :
        /\ req[p].pc = "ret"
        /\ req[p].op = "seasons"
        /\ req[p].tmdbid = PyStr(<<"7", "a">>)

\* the reply p is deciding on is a valid 1-based index into its candidates,
\* in a dialogue that has not yet listed seasons
Picked(p) == dlg[p].movies[IntOfStr(turn[p].input).val]
ValidChoice(p) ==
    /\ turn[p].pc = "t_get" /\ turn'[p].pc # "t_get"
    /\ dlg[p].phase = "movie"
    /\ IntOfStr(turn[p].input).ok
    /\ IntOfStr(turn[p].input).val \in 1..Len(dlg[p].movies)
\* the owner's entry is what this dialogue's own turns have made it
OwnState(p) ==
    /\ dlg[p].owner \in Owners
    /\ state[dlg[p].owner] = IF dlg[p].phase = "season" THEN SeasonState(dlg[p].chosen, dlg[p].listed)
                             ELSE NoState
HasCall(p, o) == \E k \in 1..Len(dlg[p].log) : dlg[p].log[k].op = o
\* the dialogue is over and has left nothing behind
Ended(p) == dlg[p].owner \in Owners /\ dlg[p].pc = "idle" /\ turn[p].pc = "none"
Removed(p) == ~state[dlg[p].owner].present /\ sessions[dlg[p].chat] # p

MovieChoiceStep(p) ==
    (ValidChoice(p) /\ Picked(p).type # TypeTv) =>
        /\ dlg'[p].log = <<Call("sub_movie", Picked(p), 0)>>
        /\ req'[p].pc = "start"
        /\ req'[p].op = "sub_movie"
MovieChoiceEnds(p) ==
    HasCall(p, "sub_movie") =>
        /\ Len(dlg[p].log) = 1
        /\ (turn[p].pc = "none" => dlg[p].future # "pending")
        /\ (Ended(p) => Removed(p))

\* C9: in AwaitingMovieChoice a reply that is a valid index i of a candidate
\* that is not a TV series causes exactly one subscribe_movie call, for
\* candidate i, and no subscribe_series or list_all_seasons call; after it the
\* session is terminal and removed from the registry
C9_MovieChoiceSubscribesOnce ==
    /\ [][\A p \in Procs : MovieChoiceStep(p)]_vars
    /\ [](\A p \in Procs : MovieChoiceEnds(p))

\* The same holds of every dialogue that finds the owner's entry as its own
\* turns left it
MovieChoiceFromOwnState ==
    /\ [][\A p \in Procs : OwnState(p) => MovieChoiceStep(p)]_vars
    /\ [](\A p \in Procs : MovieChoiceEnds(p))

TvChoiceStep(p) ==
    (ValidChoice(p) /\ Picked(p).type = TypeTv /\ ~NoTmdbId(Picked(p))) =>
        /\ dlg'[p].log = <<Call("seasons", Picked(p), 0)>>
        /\ req'[p].pc = "start"
        /\ req'[p].op = "seasons"
        /\ req'[p].tmdbid = Picked(p).tmdb_id
SeasonsListedStep(p) ==
    /\ (turn[p].pc = "t_api" /\ turn'[p].pc # "t_api" /\ req[p].op = "seasons" /\ ~NoResult(req[p].data)) =>
          /\ turn'[p].then = "set"
          /\ turn'[p].seasons = req[p].data.items
          /\ dlg'[p].log = dlg[p].log
    /\ (turn[p].pc = "t_set" /\ turn'[p].pc # "t_set") =>
          /\ dlg'[p].phase = "season"
          /\ state'[dlg[p].owner] = SeasonState(turn[p].movie, turn[p].seasons)
          /\ dlg'[p].log = <<Call("seasons", turn[p].movie, 0)>>
SeasonChoiceStep(p) ==
    (dlg[p].phase = "season" /\ turn[p].pc \in {"t_get", "t_get2"} /\ turn'[p] # turn[p]) =>
        LET n == IntOfStr(turn[p].input)
        IN  IF n.ok /\ n.val # 0 /\ ValidSeason(dlg[p].listed, n.val)
            THEN IF turn[p].pc = "t_get"
                 THEN turn'[p].pc = "t_get2" /\ dlg'[p].log = dlg[p].log
                 ELSE /\ dlg'[p].log = Append(dlg[p].log, Call("sub_series", dlg[p].chosen, n.val))
                      /\ req'[p].pc = "start"
                      /\ req'[p].op = "sub_series"
            ELSE dlg'[p].log = dlg[p].log /\ req'[p] = req[p]
SeasonChoiceEnds(p) ==
    /\ ~HasCall(p, "sub_movie") => \A k \in 1..Len(dlg[p].log) :
                                      dlg[p].log[k].op = IF k = 1 THEN "seasons" ELSE "sub_series"
    /\ HasCall(p, "sub_series") =>
          /\ Len(dlg[p].log) = 2
          /\ dlg[p].phase = "season"
          /\ dlg[p].log[2].title = dlg[p].chosen.title
          /\ dlg[p].log[1].title = dlg[p].chosen.title
          /\ ValidSeason(dlg[p].listed, dlg[p].log[2].season)
          /\ (turn[p].pc = "none" => dlg[p].future # "pending")
          /\ (Ended(p) => Removed(p))

\* C10: choosing a TV series by a valid index calls list_all_seasons and no
\* subscription; with a non-empty season list the session awaits the season;
\* a reply equal to a listed season number then causes exactly one
\* subscribe_series call with the chosen title and that number, after which
\* the session is terminal and removed; a number not in the list causes no call
C10_SeasonChoiceSubscribesOnce ==
    /\ [][\A p \in Procs : TvChoiceStep(p) /\ SeasonsListedStep(p) /\ SeasonChoiceStep(p)]_vars
    /\ [](\A p \in Procs : SeasonChoiceEnds(p))

\* The same holds of every dialogue that finds the owner's entry as its own
\* turns left it
SeasonChoiceFromOwnState ==
    [][\A p \in Procs : OwnState(p) => (TvChoiceStep(p) /\ SeasonsListedStep(p) /\ SeasonChoiceStep(p))]_vars

\* the handler decides on a reply that reads as the number 0
ZeroReply(p) ==
    /\ turn[p].pc = "t_get" /\ turn'[p].pc # "t_get"
    /\ IntOfStr(turn[p].input).ok
    /\ IntOfStr(turn[p].input).val = 0
Subscribes(p) == HasCall(p, "sub_movie") \/ HasCall(p, "sub_series")
CancelStep(p) ==
    /\ ZeroReply(p) =>
          /\ turn'[p] = Say(turn[p], "cancelled", "stop")
          /\ req'[p] = req[p]
          /\ dlg'[p].log = dlg[p].log
    /\ (turn[p].pc = "t_send" /\ turn[p].msg = "cancelled" /\ turn'[p] # turn[p]) =>
          /\ turn'[p] = NoTurn
          /\ dlg'[p].future # "pending"
          /\ dlg'[p].log = dlg[p].log
CancelEnds(p) ==
    (turn[p].msg = "cancelled" \/ dlg[p].said = "cancelled") =>
        /\ ~Subscribes(p)
        /\ (turn[p].pc = "none" => dlg[p].future # "pending")
        /\ (Ended(p) => Removed(p))

\* C11: in AwaitingMovieChoice and in AwaitingSeasonChoice the reply 0 is
\* answered with the cancel message and stops the waiter; no subscribe_movie
\* or subscribe_series call is made in the dialogue, and when the dialogue has
\* ended the owner's entry and the waiter are gone; so also when the season
\* list has a season numbered 0
C11_ZeroCancels ==
    /\ [][\A p \in Procs : CancelStep(p)]_vars
    /\ [](\A p \in Procs : CancelEnds(p))

\* cancelled at the season choice of a series that has a season 0
C11_Witness ==
    \E p \in Procs :
        /\ Ended(p)
        /\ dlg[p].said = "cancelled"
        /\ dlg[p].last = "result"
        /\ dlg[p].phase = "season"
        /\ ValidSeason(dlg[p].listed, 0)
        /\ Removed(p)

\* every timer of the waiter runs for 60 s from the moment it is set, and
\* fails the waiter only when that time is over
TimerStep(p) ==
    /\ dlg'[p].deadline # dlg[p].deadline => dlg'[p].deadline = now + TurnTimeout
    /\ (dlg[p].future = "pending" /\ dlg'[p].future = "timeout") =>
          /\ now >= dlg[p].deadline
          /\ turn[p].pc = "none" => dlg'[p].quiet
\* once it has run out with no reply under way, nothing more is called
QuietStep(p) ==
    (dlg[p].quiet /\ dlg'[p].owner = dlg[p].owner /\ dlg'[p].pc # "searching") =>
        /\ dlg'[p].log = dlg[p].log
        /\ req'[p] = req[p]
        /\ turn'[p] = NoTurn
        /\ dlg[p].pc # "idle" => dlg'[p].pc \in {"notify", "clearing", "idle"}
        /\ (dlg[p].pc = "clearing" /\ dlg'[p].pc = "idle") =>
              /\ dlg'[p].last = "timeout"
              /\ ~state'[dlg[p].owner].present
TimedOut(p) ==
    dlg[p].quiet =>
        /\ dlg[p].future = "timeout"
        /\ ~Subscribes(p)
        /\ turn[p].pc = "none"
        /\ sessions[dlg[p].chat] = p => dlg[p].pc = "waiting"
        /\ Ended(p) => Removed(p)

\* C12: a waiter that gets no reply within 60 s of the moment its timer was
\* last set (at the start of the wait or by keep) fails with TimeoutError at
\* that deadline and not before; the command reports the timeout and removes
\* the owner's entry and the waiter, and the dialogue has made no subscribe
\* call
C12_NoReplyTimesOut ==
    /\ [][\A p \in Procs : TimerStep(p) /\ QuietStep(p)]_vars
    /\ [](\A p \in Procs : TimedOut(p))

\* timed out at the season choice, 60 s after the season list was sent
C12_Witness ==
    \E p \in Procs :
        /\ Ended(p)
        /\ dlg[p].quiet
        /\ dlg[p].last = "timeout"
        /\ dlg[p].phase = "season"
        /\ dlg[p].said = "season_list"
        /\ now = dlg[p].deadline
        /\ Removed(p)

\* the reply under decision is not a number, or a number that is no index of
\* the candidates (movie choice) or no listed season (season choice)
Invalid(p) ==
    LET n == IntOfStr(turn[p].input)
    IN  \/ ~n.ok
        \/ /\ n.val # 0
           /\ \/ dlg[p].phase = "movie" /\ n.val \notin 1..Len(dlg[p].movies)
              \/ dlg[p].phase = "season" /\ ~ValidSeason(dlg[p].listed, n.val)
Session(p) == <<dlg[p].phase, dlg[p].chosen, dlg[p].listed, dlg[p].movies, state[dlg[p].owner]>>
InvalidStep(p) ==
    (turn[p].pc \in {"t_get", "t_get2"} /\ turn'[p] # turn[p] /\ Invalid(p)) =>
        /\ turn'[p].pc \in {"t_get2", "t_send"}
        /\ turn'[p].pc = "t_send" => turn'[p].then = "keep"
        /\ req'[p] = req[p]
        /\ dlg'[p] = dlg[p]
        /\ state' = state
\* the answer to an invalid reply has been sent
Answered(p) ==
    /\ turn[p].pc = "t_send"
    /\ turn[p].then = "keep"
    /\ turn'[p] = NoTurn
    /\ dlg'[p].said = turn[p].msg
KeptStep(p) ==
    Answered(p) =>
        /\ Session(p)' = Session(p)
        /\ dlg'[p].log = dlg[p].log
        /\ dlg'[p].future = "pending"
        /\ sessions'[dlg[p].chat] = p
        /\ dlg'[p].armed
        /\ dlg'[p].deadline = now + TurnTimeout

\* C13: a reply that is not a number, an index out of range (movie choice) or
\* a number that is no listed season (season choice) changes nothing of the
\* session and calls nothing; once it is answered the waiter is still pending
\* and registered, with a timer of 60 s from then, every time
C13_InvalidReplyKeepsSession ==
    [][\A p \in Procs : InvalidStep(p) /\ KeptStep(p)]_vars

\* The same holds whenever the waiter's timer has not run out before the
\* answer is sent
InvalidReplyKeptUnlessTimedOut ==
    [][\A p \in Procs : InvalidStep(p) /\ (dlg[p].future = "pending" => KeptStep(p))]_vars

\* the waiter of p's dialogue is waiting for a reply
Live(p) == dlg[p].pc = "waiting" /\ dlg[p].future = "pending"

\* C15: no owner ever has two dialogues whose waiters are alive at the same
\* time, however the owner's /sub commands and replies interleave
C15_OneLiveSessionPerOwner ==
    \A p, q \in Procs : (p # q /\ Live(p) /\ Live(q)) => dlg[p].owner # dlg[q].owner

\* the two commands are of different owners
TwoOwners == \A p, q \in Procs : p # q => dlg[p].owner # dlg[q].owner
Acts(p) == turn'[p] # turn[p] \/ dlg'[p] # dlg[p]
\* a step of p's dialogue leaves every other owner's entry as it is, and what
\* it decides follows from the entry of its own owner
OwnEntryStep(p) ==
    LET n == IntOfStr(turn[p].input)
        own == state[dlg[p].owner]
    IN  /\ Acts(p) => \A o \in Owners \ {dlg'[p].owner} : state'[o] = state[o]
        /\ (turn[p].pc = "t_get" /\ turn'[p].pc # "t_get" /\ n.ok /\ n.val # 0) =>
              (turn'[p].pc = "t_get2" <=> own.waiting_for = "season")
        /\ (turn[p].pc = "t_get2" /\ turn'[p].pc = "t_api") =>
              /\ ValidSeason(own.seasons, n.val)
              /\ dlg'[p].log = Append(dlg[p].log, Call("sub_series", own.selected_movie, n.val))
        /\ (turn[p].pc = "t_set" /\ turn'[p].pc = "none") =>
              state'[dlg[p].owner] = SeasonState(turn[p].movie, turn[p].seasons)
        /\ (dlg[p].pc = "clearing" /\ dlg'[p].pc = "idle") => state'[dlg[p].owner] = NoState
IsTitle(t, movies) == \E k \in 1..Len(movies) : movies[k].title = t
\* every subscribe call of the dialogue names one of its own candidates, and
\* a season of the list it was given for that candidate
OwnCandidates(p) ==
    /\ state[dlg[p].owner].present =>
          /\ dlg[p].phase = "season"
          /\ state[dlg[p].owner] = SeasonState(dlg[p].chosen, dlg[p].listed)
    /\ \A k \in 1..Len(dlg[p].log) :
          /\ IsTitle(dlg[p].log[k].title, dlg[p].movies)
          /\ dlg[p].log[k].op = "sub_series" =>
                /\ dlg[p].log[k].title = dlg[p].chosen.title
                /\ ValidSeason(dlg[p].listed, dlg[p].log[k].season)

Returns(p, pc) == dlg[p].pc = pc /\ dlg'[p].pc # pc
\* the call failed: no 200 response gave its body (no token, a 401, a failed
\* status, a timeout or connection error on the last attempt)
CallFailed(p) == ~obs[p].ok
\* the call succeeded and the backend listed nothing: the body is [] (or {})
CallEmpty(p) == obs[p].ok /\ req[p].data.kind = "empty"

\* C17: get_download_progress gives None when the call failed, and the
\* command then reports that the service cannot be reached; it gives an empty
\* list when the call succeeded with no task, and the command then reports
\* that nothing is downloading
C17_ProgressNoneVsEmpty ==
    [][\A p \in Procs :
          Returns(p, "downloading") =>
             /\ CallFailed(p) => (req[p].data = NoneData /\ dlg'[p].last = "unreachable")
             /\ CallEmpty(p) => dlg'[p].last = "nothing"]_vars

\* /download has reported that nothing is downloading
C17_Witness ==
    \E p \in Procs :
        /\ dlg[p].cmd = "download"
        /\ dlg[p].pc = "idle"
        /\ dlg[p].last = "nothing"

\* C18: a search whose backend call failed is not answered like a search
\* that found nothing: the 'no matches' answer is given only when the backend
\* was reached and returned no result
C18_SearchFailureReported ==
    [][\A p \in Procs :
          Returns(p, "searching") =>
             /\ CallEmpty(p) => dlg'[p].last = "nomatch"
             /\ CallFailed(p) => dlg'[p].last # "nomatch"]_vars

\* what the command does: nothing found and a failed call are both answered
\* with 'no matches', and a result starts the dialogue
SearchAnswers ==
    [][\A p \in Procs :
          Returns(p, "searching") =>
             IF obs[p].ok /\ req[p].data.kind = "obj"
             THEN dlg'[p].pc = "waiting" /\ dlg'[p].movies = req[p].data.items
             ELSE dlg'[p].pc = "idle" /\ dlg'[p].last = "nomatch"]_vars

\* one of mp_url, mp_username, mp_password is not set
Unconfigured == base_url = "" \/ mp_username = "" \/ mp_password = ""
ConfigReported(p) ==
    /\ dlg[p].cmd = "download" => dlg[p].last = "config"
    /\ dlg[p].cmd = "sub" => dlg[p].last = IF BlankMessage(dlg[p].message) THEN "usage" ELSE "config"
NothingStarted ==
    /\ \A p \in Procs : req[p] = IdleReq /\ obs[p] = IdleObs /\ dlg[p].pc = "idle" /\ turn[p] = NoTurn
    /\ \A c \in Chats : sessions[c] = NoProc
    /\ \A o \in Owners : state[o] = NoState
    /\ issued = 0

\* C19: with the URL, the user name or the password missing, /sub with a
\* title and /download answer with the configuration error, no request is
\* sent (no login, no search, no progress query) and no dialogue starts
C19_UnconfiguredNoRequest ==
    Unconfigured => (NothingStarted /\ \A p \in Procs : ConfigReported(p))

\* /sub X was answered with the configuration error for a missing user name
C19_Witness ==
    \E p \in Procs :
        /\ mp_username = "" /\ base_url # "" /\ mp_password # ""
        /\ dlg[p].cmd = "sub"
        /\ ~BlankMessage(dlg[p].message)
        /\ dlg[p].last = "config"

\* p's turn has read the owner's entry and is on its way to write the new
\* one: list_all_seasons is under way, the season list is being sent, or
\* _set_user_state has the lock
Transition(p) ==
    \/ turn[p].pc = "t_api" /\ req[p].op = "seasons"
    \/ turn[p].pc = "t_send" /\ turn[p].then = "set"
    \/ turn[p].pc = "t_set"
\* a coroutine of q's dialogue takes state_lock for a get, set or clear of o's entry
Touches(q, o) == dlg[q].owner = o /\ state_lock = NoProc /\ state_lock' = q
OwnWrite(p) == turn[p].pc = "t_send" /\ turn'[p].pc = "t_set"

\* C20: between the read of the owner's entry by a turn and the write of the
\* new entry by that turn, no other get, set or clear of that owner's entry
\* takes place; the entry the turn writes replaces the entry it read
C20_TurnNotInterleaved ==
    [][\A p \in Procs :
          Transition(p) =>
             /\ \A q \in Procs : Touches(q, UserId(p)) => (q = p /\ OwnWrite(p))
             /\ state'[UserId(p)] # state[UserId(p)] => turn[p].pc = "t_set"]_vars

\* A dialogue that has ended leaves no entry of its owner behind
NothingLeftBehind == \A p \in Procs : Ended(p) => ~state[dlg[p].owner].present

\* C14: whatever the terminal outcome of a dialogue (subscribed, cancelled,
\* timed out, failed), once its command and its turns are over the owner has
\* no entry in MoviePilotPlugin.state and the waiter is not registered
C14_TerminalRemovesEntry == [](NothingLeftBehind /\ \A p \in Procs : Ended(p) => Removed(p))

\* the finally block of the command always removes the entry; an entry is
\* left only by a turn that was still running when the timer failed the waiter
ClearedAtEnd ==
    /\ [][\A p \in Procs : (dlg[p].pc = "clearing" /\ dlg'[p].pc = "idle") =>
                                ~state'[dlg[p].owner].present]_vars
    /\ [][\A p \in Procs : (turn[p].pc = "t_set" /\ turn'[p].pc = "none" /\ dlg[p].future # "pending") =>
                                (dlg[p].future = "timeout" /\ ~dlg[p].quiet)]_vars
    /\ [][\A o \in Owners : (state'[o].present /\ ~state[o].present) =>
                                \E p \in Procs : turn[p].pc = "t_set" /\ turn'[p].pc = "none"]_vars

\* p is the coroutine that takes this step
Steps(p) == req'[p] # req[p] \/ dlg'[p] # dlg[p] \/ turn'[p] # turn[p]

\* p is inside "async with self._token_lock" of _get_mp_token (store),
\* _request (401) or clear_token_cache, and runs its body
WritesCache(p) == token_lock = p /\ req[p].pc \in {"gt_store", "req_clr", "cc_locked"} /\ Steps(p)

\* p is inside "async with self.state_lock" of _set_user_state or
\* _clear_user_state, and runs its body
WritesState(p) == state_lock = p /\ (turn[p].pc = "t_set" \/ dlg[p].pc = "clearing") /\ Steps(p)

NeverBothLocks == \A p \in Procs : ~(token_lock = p /\ state_lock = p)

WrittenUnderLock ==
    /\ cacheVars' # cacheVars => \E p \in Procs : WritesCache(p) /\ token_lock' = NoProc
    /\ state' # state => \E p \in Procs : WritesState(p) /\ state_lock' = NoProc

\* C21: no coroutine ever holds _token_lock and state_lock at the same time,
\* and every step that changes the cached token or its expiry, or the state
\* map, is a step of the coroutine that holds the lock of what it changes.
C21_LocksApartWritesLocked == [](NeverBothLocks) /\ [][WrittenUnderLock]_vars

\* Both locks are held, by two coroutines: one is about to store the token of
\* its login over the token another login has stored, the other is about to
\* store the season state of its owner
C21_Witness ==
    /\ token_lock = "p1"
    /\ state_lock = "p2"
    /\ req["p1"].pc = "gt_store"
    /\ turn["p2"].pc = "t_set"
    /\ cached_token # 0

\* p's login has succeeded and p stores its token (api.py:97-99)
Stores(p) == req[p].pc = "gt_store" /\ req'[p].pc # "gt_store"

\* expires_in of the login response, 3600 when the response has none
Lifetime(body) == IF body.expires_in = Absent THEN DefaultExpiresIn ELSE body.expires_in

\* C22: when a login has succeeded, after one attempt or after retried ones,
\* the cache holds the token of that login and an expiry equal to the time
\* at which it is stored plus the lifetime of the response (3600 s when the
\* response carries none).
C22_ExpiryFromNow ==
    [][\A p \in Procs :
          Stores(p) => /\ cached_token' = req[p].data.access_token
                       /\ token_expires_at' = now + Lifetime(req[p].data)]_vars

\* What _get_mp_token stores: the token of the login, and the time read at the
\* start of the call (api.py:64) plus the lifetime; that time is behind the
\* clock by what the login request, its retries and their sleeps have taken.
ExpiryFromCallStart ==
    [][\A p \in Procs :
          Stores(p) => /\ cached_token' = req[p].data.access_token
                       /\ token_expires_at' = req[p].current_time + Lifetime(req[p].data)
                       /\ req[p].current_time <= now]_vars

\* a login that succeeded at its second attempt, after a sleep, is stored
LateLoginStored ==
    \E p \in Procs :
        /\ req[p].pc = "gt_store"
        /\ obs[p].lsent >= 2
        /\ obs[p].ldelays # <<>> /\ obs[p].ldelays[1] > 0
        /\ now > req[p].current_time

\* the attempt of p that is in flight receives its response
Receives(p) == req[p].pc = "req_flight" /\ req'[p].pc # "req_flight"

\* what that attempt received: "200", "401", "2xx" for another 2xx status,
\* "err" for any other status, a timeout or a connection failure
Received(p) == IF req[p].login THEN obs'[p].llast ELSE obs'[p].last

\* _request hands a body to its caller: the login to _get_mp_token, any other
\* request to the client method that made it
ReturnsBody(p) ==
    /\ req[p].pc # req'[p].pc
    /\ \/ req'[p].pc = "gt_store"
       \/ req'[p].pc = "ret" /\ req'[p].data # NoneData

\* the attempt is followed by a sleep and another attempt, or it was the last
\* one and _request returns None; the cache is left alone
Retried(p) ==
    /\ IF req[p].attempt < max_retries - 1
       THEN /\ req'[p].pc = "req_sleep"
            /\ req'[p].attempt = req[p].attempt
            /\ req'[p].wake = now + retry_delay * (req[p].attempt + 1)
       ELSE req'[p].pc = "ret" /\ req'[p].data = NoneData
    /\ UNCHANGED <<cacheVars, token_lock>>

SubscribeOps == {"sub_movie", "sub_series"}

OnlyStatus200Succeeds ==
    \A p \in Procs :
       /\ ReturnsBody(p) => Receives(p) /\ Received(p) = "200"
       /\ Receives(p) /\ Received(p) \in {"2xx", "err"} => Retried(p)
       /\ req[p].pc = "req_sleep" /\ req'[p].pc # "req_sleep" =>
              req'[p].pc = "req_send" /\ req'[p].attempt = req[p].attempt + 1

PostsBounded ==
    \A p \in Procs : req[p].op \in SubscribeOps => obs[p].sent <= max_retries

\* C23: _request returns a body only from an attempt that received status
\* 200; an attempt that received any other status except 401, a 201 as much
\* as a 500, is followed like a timeout by a sleep and the next attempt, or by
\* None after the last one; a subscribe operation sends its POST at most
\* max_retries times, and it is reported as failed when every attempt was
\* answered with another 2xx status.
C23_OnlyStatus200Succeeds ==
    /\ [][OnlyStatus200Succeeds]_vars
    /\ [](PostsBounded)
    /\ [][\A p \in Procs :
            turn[p].pc = "t_api" /\ turn'[p].pc = "t_send" /\ req[p].op \in SubscribeOps
            /\ obs[p].last # "200" => turn'[p].msg = "sub_failed"]_vars

\* a subscribe POST was sent max_retries = 2 times, each answered with status
\* 201, and the operation has returned without a body
C23_Witness ==
    /\ max_retries = 2
    /\ req["p1"].op \in SubscribeOps
    /\ req["p1"].pc = "ret"
    /\ req["p1"].data = NoneData
    /\ obs["p1"].sent = max_retries
    /\ obs["p1"].last = "2xx"
    /\ Len(obs["p1"].delays) = 1

====
